---- MODULE Spec2Model ----
(***************************************************************************)
(* State-machine model of the motor digital-twin simulator:                *)
(*   simulator/physics.py, simulator/motor.py, simulator/factory.py,       *)
(*   simulator/maintenance.py, ui/simulator_manager.py and the two         *)
(*   generation strategies in ui/strategies/.                              *)
(*                                                                         *)
(* Numeric conventions.  Health values are integers in percent             *)
(* (0.95 -> 95).  Operating hours and stage durations are integers in      *)
(* hundredths of an hour, so that a duration "lifespan * pct" is the       *)
(* integer Lifespan * Pct with Pct in percent.  One tick adds              *)
(* TimeStepHours.  Record times are kept in half ticks (time2 = 2 * time)  *)
(* because the batch strategy stamps maintenance records with time + 0.5.  *)
(* Draws of numpy's global generator are nondeterministic choices from     *)
(* small sets that contain the end points of the sampled interval.         *)
(*                                                                         *)
(* The sensor channels do not influence the health state machine.  The     *)
(* temperature channel is modelled on its own (thermal, ThermalStep),      *)
(* driven by sampled health and load values, in units of 0.0001 degree C;  *)
(* vibration, current, rpm and misalignment are outside this model.        *)
(***************************************************************************)
EXTENDS Integers, Sequences, FiniteSets, TLC

\* ------------------------------------------------------------------ bounds
NumMotors == 2          \* config.num_motors
MaxTarget == 2          \* largest config.target_maintenance_cycles explored
MaxStepsBound == 6      \* largest max_steps passed to generate_until_all_critical
MinHours == 2           \* min_hours_to_critical, in hours (scaled down lifespan)
MaxHours == 2           \* max_hours_to_critical, in hours (scaled down lifespan)
BatchSize == 3          \* batch_size of _process_batch (scaled down from 25000)
MemCheckEvery == 4      \* period of the memory check (scaled down from 5000)
DetSteps == 2           \* max_steps of the runs compared for determinism
MaxInits == 1           \* initialisations explored per behaviour
RegimeBase == 2         \* base regime duration in ticks (scaled down from 100)
LongHours == 12         \* min = max_hours_to_critical of the long-lived fleet, in hours
ThermalSteps == 2       \* ticks of the temperature channel explored
FlatlineTicks == 12     \* ticks of the channel explored around one flatline episode

\* ------------------------------------------------------- program constants
TimeStepHours == 100            \* one tick, in hundredths of an hour (60 min)
Stage0BaseHealth == 95
HealthyThresholdDefault == 70
WarningThresholdDefault == 40
AlertThresholdDefault == 30
MinWarningThreshold == 10
CriticalThresholdDefault == 20
Stage0MinPct == 70
Stage0MaxPct == 85
Stage1MinPct == 12
Stage1MaxPct == 22
AutoMaintHealthLimit == 30
MaxScheduleDelay == 288
CriticalHealthThreshold == 25   \* critical_health_threshold 0.25
ScheduledInterval == 500        \* scheduled_interval
ScheduledWindow == 10           \* width of the lubrication window
AmbientTemp == 250000           \* ambient_temp 25.0, in units of 0.0001 degree C
NoiseTemperature == 1500        \* noise_temperature 0.15 (Gaussian sigma)
TempDrift == 1                  \* temp_drift 1e-4 per tick
FlatlineSteps == 10             \* shortest flatline, randint(10, 50)
IntermittentSteps == 5          \* shortest intermittent phase, randint(5, 20)

Motors == 0 .. (NumMotors - 1)
None == "None"

HEALTHY == "Healthy"
WARNING == "Warning"
CRITICAL == "Critical"

STOPPED == "stopped"
RUNNING == "running"
PAUSED == "paused"

IDLE == "idle"
NORMAL == "normal"
PEAK == "peak"

Min2(a, b) == IF a <= b THEN a ELSE b
Max2(a, b) == IF a >= b THEN a ELSE b
Clip(x, lo, hi) == Max2(lo, Min2(x, hi))

RECURSIVE Pow(_, _)
Pow(x, n) == IF n = 0 THEN 1 ELSE x * Pow(x, n - 1)

\* ------------------------------------------------------------ random draws
LifespanDraws == {MinHours, MaxHours}
Stage0PctDraws == {Stage0MinPct, Stage0MaxPct}
Stage1PctDraws == {Stage1MinPct, Stage1MaxPct}
Stage1ExpDraws == {2}
Stage0Noise == {-1, 1}
Stage1Noise == {-2, 2}
Stage2Noise == {-1, 1}
AutoMaintHealthDraws == {Stage0BaseHealth - 2, Stage0BaseHealth}
RecoveryDraws == {85, 98}
RegimeDurationDraws == {(8 * RegimeBase) \div 10, (12 * RegimeBase) \div 10}

\* run configurations: the thresholds the UI passes and the cycle target
WarningThresholdChoices == {WarningThresholdDefault, MinWarningThreshold}
CriticalThresholdChoices == {CriticalThresholdDefault}
Configs ==
  [ target_maintenance_cycles : 1 .. MaxTarget,
    warning_threshold : WarningThresholdChoices,
    critical_threshold : CriticalThresholdChoices,
    degradation_speed : {1} ]

\* run configurations with the default thresholds, one cycle per motor and a
\* degradation_speed of 1.0 or 2.0
DegradationSpeedChoices == {1, 2}
SpeedConfigs ==
  [ target_maintenance_cycles : {1},
    warning_threshold : {WarningThresholdDefault},
    critical_threshold : {CriticalThresholdDefault},
    degradation_speed : DegradationSpeedChoices ]

\* run configurations of ui/simulator_manager.py: its SimulatorConfig has no
\* threshold fields, readers fall back to the defaults
ManagerConfigs ==
  { c \in Configs : /\ c.warning_threshold = WarningThresholdDefault
                    /\ c.critical_threshold = CriticalThresholdDefault }

\* ------------------------------------------------- simulator/physics.py
determine_health_state(health_value, healthy_threshold, warning_threshold) ==
  IF health_value >= healthy_threshold THEN HEALTHY
  ELSE IF health_value >= warning_threshold THEN WARNING
  ELSE CRITICAL

determine_degradation_stage(hours, stage_0_duration, stage_1_duration, stage_2_duration) ==
  IF hours < stage_0_duration THEN 0
  ELSE IF hours < stage_0_duration + stage_1_duration THEN 1
  ELSE 2

\* 0.5 * 0.3^(q/4) in percent, q = floor(4 * time_in_stage / stage_2_duration)
Pow03Quarter == <<50, 37, 27, 20, 15, 11, 8, 6, 4>>
\* 0.5 * exp(-0.1 * h) in percent, h = whole hours in stage (c = -0.1)
ExpTenth == <<50, 45, 41, 37, 33, 30, 27, 25, 22>>

\* decay = 0.5 * exp(c * time_in_stage), c = ln(0.30) / stage_2_duration
Stage2Decay(time_in_stage, stage_2_duration) ==
  IF stage_2_duration > 0
  THEN LET q == (4 * time_in_stage) \div stage_2_duration
       IN IF q < Len(Pow03Quarter) THEN Pow03Quarter[q + 1] ELSE 2
  ELSE LET h == time_in_stage \div 100
       IN IF h < Len(ExpTenth) THEN ExpTenth[h + 1] ELSE 20

\* health_from_model of Stage 1: 0.95 - a * t^b with a = 0.45 / duration^b
Stage1Model(time_in_stage, stage_1_duration, exp) ==
  IF stage_1_duration > 0
  THEN 95 - ((45 * Pow(time_in_stage, exp)) \div Pow(stage_1_duration, exp))
  ELSE 95

\* Stage 0 without np.clip(new_health, base_health - 0.03, base_health + 0.02)
Stage0UpdateNoClip(current_health, stage_0_duration, noise) ==
  LET tiny_decay == IF stage_0_duration > 0
                    THEN (5 * TimeStepHours) \div stage_0_duration ELSE 0
  IN current_health - tiny_decay + noise

Stage0Update(current_health, stage_0_duration, noise) ==
  LET tiny_decay == IF stage_0_duration > 0
                    THEN (5 * TimeStepHours) \div stage_0_duration ELSE 0
  IN Clip(current_health - tiny_decay + noise,
          Stage0BaseHealth - 3, Stage0BaseHealth + 2)

Stage1Update(current_health, time_in_stage, stage_1_duration, exp, noise) ==
  Min2(Stage1Model(time_in_stage, stage_1_duration, exp) + noise, current_health)

\* Stage 2 without the monotonic guard min(new_health, current_health)
Stage2UpdateNoMin(current_health, time_in_stage, stage_2_duration, noise) ==
  Max2(0, (50 - Stage2Decay(time_in_stage, stage_2_duration)) + noise)

\* Stage 2 without the floor max(0.0, new_health)
Stage2UpdateNoFloor(current_health, time_in_stage, stage_2_duration, noise) ==
  Min2((50 - Stage2Decay(time_in_stage, stage_2_duration)) + noise, current_health)

Stage2Update(current_health, time_in_stage, stage_2_duration, noise) ==
  Max2(0, Min2((50 - Stage2Decay(time_in_stage, stage_2_duration)) + noise,
               current_health))

\* the noise draw of the stage's branch
StageNoise(stage) ==
  IF stage = 0 THEN Stage0Noise ELSE IF stage = 1 THEN Stage1Noise ELSE Stage2Noise

update_motor_health(current_health, hours, stage, d0, d1, d2, exp, noise) ==
  IF stage = 0 THEN Stage0Update(current_health, d0, noise)
  ELSE IF stage = 1 THEN Stage1Update(current_health, hours - d0, d1, exp, noise)
  ELSE Stage2Update(current_health, hours - d0 - d1, d2, noise)

\* --------------------------------------------------- simulator/motor.py
\* Motor.step with the stage determined before the hours are advanced
MotorStepStaleStage(ms, mcfg, noise) ==
  LET hours == ms.hours + TimeStepHours
      stage == determine_degradation_stage(ms.hours, ms.d0, ms.d1, ms.d2)
      health == update_motor_health(ms.motor_health, hours, stage,
                                    ms.d0, ms.d1, ms.d2, ms.exp, noise)
  IN [ms EXCEPT !.hours = hours,
                !.degradation_stage = stage,
                !.motor_health = health,
                !.health_state = determine_health_state(health,
                                    mcfg.healthy_threshold, mcfg.warning_threshold)]

\* Motor.step: hidden-state part (hours, stage, health, categorical state)
MotorStep(ms, mcfg, noise) ==
  LET hours == ms.hours + TimeStepHours
      stage == determine_degradation_stage(hours, ms.d0, ms.d1, ms.d2)
      health == update_motor_health(ms.motor_health, hours, stage,
                                    ms.d0, ms.d1, ms.d2, ms.exp, noise)
  IN [ms EXCEPT !.hours = hours,
                !.degradation_stage = stage,
                !.motor_health = health,
                !.health_state = determine_health_state(health,
                                    mcfg.healthy_threshold, mcfg.warning_threshold)]

\* noise draws available to Motor.step in the state ms
StepNoise(ms) ==
  StageNoise(determine_degradation_stage(ms.hours + TimeStepHours, ms.d0, ms.d1, ms.d2))

\* the dictionary Motor.step returns, with the stage durations in force
Sensors(ms) ==
  [ motor_health |-> ms.motor_health,
    health_state |-> ms.health_state,
    hours_since_maintenance |-> ms.hours,
    degradation_stage |-> ms.degradation_stage,
    d0 |-> ms.d0, d1 |-> ms.d1, d2 |-> ms.d2 ]

\* ------------------------------------------------- simulator/factory.py
\* FactorySimulator._create_motor
CreateMotor(lifespan, stage_0_pct, stage_1_pct, exp) ==
  [ motor_health |-> Stage0BaseHealth,
    health_state |-> HEALTHY,
    degradation_stage |-> 0,
    hours |-> 0,
    lifespan |-> lifespan * 100,
    d0 |-> lifespan * stage_0_pct,
    d1 |-> lifespan * stage_1_pct,
    d2 |-> lifespan * (100 - stage_0_pct - stage_1_pct),
    exp |-> exp ]

\* an automatic maintenance that leaves the operating-hours counter running
PerformAutomaticMaintenanceKeepHours(ms, health, lifespan, stage_0_pct, stage_1_pct, exp) ==
  [ms EXCEPT !.motor_health = health,
             !.health_state = HEALTHY,
             !.degradation_stage = 0,
             !.lifespan = lifespan * 100,
             !.d0 = lifespan * stage_0_pct,
             !.d1 = lifespan * stage_1_pct,
             !.d2 = lifespan * (100 - stage_0_pct - stage_1_pct),
             !.exp = exp]

\* FactorySimulator._perform_automatic_maintenance
PerformAutomaticMaintenance(ms, health, lifespan, stage_0_pct, stage_1_pct, exp) ==
  [ms EXCEPT !.motor_health = health,
             !.health_state = HEALTHY,
             !.degradation_stage = 0,
             !.hours = 0,
             !.lifespan = lifespan * 100,
             !.d0 = lifespan * stage_0_pct,
             !.d1 = lifespan * stage_1_pct,
             !.d2 = lifespan * (100 - stage_0_pct - stage_1_pct),
             !.exp = exp]

\* initialize_factory: the three stage durations and target_hours_to_critical
\* multiplied by speed_factor = 1 / degradation_speed
ScaleDurations(ms, speed) ==
  [ms EXCEPT !.lifespan = ms.lifespan \div speed,
             !.d0 = ms.d0 \div speed,
             !.d1 = ms.d1 \div speed,
             !.d2 = ms.d2 \div speed]

\* the draws of one motor creation / automatic maintenance
CycleDraws == LifespanDraws \X Stage0PctDraws \X Stage1PctDraws \X Stage1ExpDraws

\* the shortest and the longest regime duration, int(base * Uniform(0.8, 1.2))
RegimeDurationMin == (8 * RegimeBase) \div 10
RegimeDurationMax == (12 * RegimeBase) \div 10

\* a transition matrix without zero entries: every regime can follow every regime
RegimeSuccessorsAny(r) == {IDLE, NORMAL, PEAK}

\* next regimes with non-zero transition probability
RegimeSuccessors(r) ==
  IF r = IDLE THEN {IDLE, NORMAL}
  ELSE IF r = NORMAL THEN {IDLE, NORMAL, PEAK}
  ELSE {NORMAL, PEAK}

\* InstantaneousStrategy._reset_health_only
ResetHealthOnly(ms, recovery) ==
  [ms EXCEPT !.motor_health = recovery,
             !.hours = 0,
             !.health_state = HEALTHY,
             !.degradation_stage = 0]

\* ------------------------------------------ temperature channel of a motor
\* physics.update_friction, in thousandths: base_friction 0.05, k_friction 0.4,
\* motor_health in percent
update_friction(motor_health) == 50 + 4 * (100 - motor_health)

\* physics.update_temperature with alpha 0.6 and beta 0.15: friction in
\* thousandths, load in tenths, temperatures in 0.0001 degree C
update_temperature(temp, friction, load) ==
  temp + (6 * friction * load) \div 10 - (15 * (temp - AmbientTemp)) \div 100

\* the motor healths and load factors the channel is driven with
ThermalHealthSamples == {Stage0BaseHealth, 0}
ThermalLoadSamples == {9, 10}

\* the random draws of one tick of the channel: Gaussian noise at +-1 sigma,
\* maybe_drop, and the draws of the imperfection simulator
ThermalDraws ==
  [ noise : {-NoiseTemperature, NoiseTemperature},
    drop : BOOLEAN,
    drift : BOOLEAN, rate : {1, 5}, sign : {-1, 1},
    flat : BOOLEAN,
    inter : BOOLEAN, idrop : BOOLEAN ]

\* an optional number: Python's None, or a float
Missing == [present |-> FALSE, value |-> 0]
Reading(x) == [present |-> TRUE, value |-> x]

\* SensorImperfectionState.__init__, with the registration flag of the
\* simulator's sensors dictionary
NewImperfection ==
  [ registered |-> FALSE,
    bias_drift_rate |-> 0, accumulated_bias |-> 0,
    is_flatlined |-> FALSE, flatline_value |-> Missing, flatline_countdown |-> 0,
    is_intermittent |-> FALSE, intermittent_countdown |-> 0 ]

\* no apply_imperfections call has been made yet
NoApplied == [value |-> Missing, idrop |-> FALSE, held |-> Missing]

\* Motor.__init__: temperature channel; applied is the input of the last
\* apply_imperfections call, flat_run the number of consecutive ticks the
\* sensor has been flatlined, flat_done the length of the last episode
NewThermal ==
  [ temperature |-> AmbientTemp, sensor_bias |-> 0,
    imperfection |-> NewImperfection,
    reading |-> Missing, steps |-> 0,
    applied |-> NoApplied, flat_run |-> 0, flat_done |-> 0 ]

\* SensorImperfectionSimulator.update / _update_sensor_state for the
\* temperature sensor; only registered sensors are updated
UpdateSensorState(st, d) ==
  IF ~st.registered THEN st
  ELSE
    LET rate == IF st.bias_drift_rate = 0 /\ d.drift THEN d.rate ELSE st.bias_drift_rate
        bias == IF rate > 0 THEN st.accumulated_bias + rate * d.sign
                ELSE st.accumulated_bias
        flat_started == ~st.is_flatlined /\ d.flat
        flat1 == st.is_flatlined \/ flat_started
        fcount1 == IF flat_started THEN FlatlineSteps ELSE st.flatline_countdown
        fcount2 == IF flat1 THEN fcount1 - 1 ELSE fcount1
        flat_over == flat1 /\ fcount2 <= 0
        inter_started == ~st.is_intermittent /\ d.inter
        inter1 == st.is_intermittent \/ inter_started
        icount1 == IF inter_started THEN IntermittentSteps ELSE st.intermittent_countdown
        icount2 == IF inter1 THEN icount1 - 1 ELSE icount1
    IN [st EXCEPT !.bias_drift_rate = rate,
                  !.accumulated_bias = bias,
                  !.is_flatlined = flat1 /\ ~flat_over,
                  !.flatline_value = IF flat_over THEN Missing ELSE @,
                  !.flatline_countdown = fcount2,
                  !.is_intermittent = inter1 /\ icount2 > 0,
                  !.intermittent_countdown = icount2]

\* an apply_imperfections that tests the flatline before the intermittent drop
ApplyImperfectionsFlatlineFirst(st, value, d) ==
  IF ~value.present THEN [state |-> st, value |-> Missing]
  ELSE
    LET st1 == [st EXCEPT !.registered = TRUE] IN
      IF st1.is_flatlined
      THEN LET held == IF ~st1.flatline_value.present THEN value
                       ELSE st1.flatline_value
           IN [state |-> [st1 EXCEPT !.flatline_value = held], value |-> held]
      ELSE IF st1.is_intermittent /\ d.idrop THEN [state |-> st1, value |-> Missing]
      ELSE [state |-> st1,
            value |-> Reading(value.value + st1.accumulated_bias)]

\* SensorImperfectionSimulator.apply_imperfections("temperature", value):
\* the new sensor state and the value returned
ApplyImperfections(st, value, d) ==
  IF ~value.present THEN [state |-> st, value |-> Missing]
  ELSE
    LET st1 == [st EXCEPT !.registered = TRUE] IN
      IF st1.is_intermittent /\ d.idrop THEN [state |-> st1, value |-> Missing]
      ELSE IF st1.is_flatlined
           THEN LET held == IF ~st1.flatline_value.present THEN value
                            ELSE st1.flatline_value
                IN [state |-> [st1 EXCEPT !.flatline_value = held], value |-> held]
           ELSE [state |-> st1,
                 value |-> Reading(value.value + st1.accumulated_bias)]

\* Motor.step, temperature channel (lines 119-135 and 175-216) for a motor
\* with the given health and load: thermal update, drift, Gaussian noise,
\* missing data, sensor imperfections
ThermalMotorStep(th, motor_health, load, d) ==
  LET temp == update_temperature(th.temperature, update_friction(motor_health), load)
      sensor_bias == th.sensor_bias + TempDrift
      noisy == temp + sensor_bias + d.noise
      kept == IF d.drop THEN Missing ELSE Reading(noisy)
      updated == UpdateSensorState(th.imperfection, d)
      applied == ApplyImperfections(updated, kept, d)
      flat == applied.state.is_flatlined
  IN [ temperature |-> temp, sensor_bias |-> sensor_bias,
       imperfection |-> applied.state,
       reading |-> applied.value, steps |-> th.steps + 1,
       applied |-> [ value |-> kept,
                     idrop |-> updated.is_intermittent /\ d.idrop,
                     held |-> updated.flatline_value ],
       flat_run |-> IF flat THEN th.flat_run + 1 ELSE 0,
       flat_done |-> IF ~flat /\ th.flat_run > 0 THEN th.flat_run ELSE th.flat_done ]

\* the draws of one tick around a flatline episode: Gaussian noise, missing
\* data and the flatline trigger; no drift and no intermittent phase
FlatlineDraws ==
  [ noise : {-NoiseTemperature, NoiseTemperature},
    drop : BOOLEAN,
    drift : {FALSE}, rate : {1}, sign : {1},
    flat : BOOLEAN,
    inter : {FALSE}, idrop : {FALSE} ]

\* ------------------------------------------------ simulator/maintenance.py
\* a query that tests the scheduled window before the reactive trigger
should_perform_maintenance_scheduled_first(enable, timestep, bearing_health, reactive_draw, scheduled_draw) ==
  IF ~enable THEN None
  ELSE IF timestep % ScheduledInterval < ScheduledWindow /\ scheduled_draw
       THEN "lubrication"
  ELSE IF bearing_health < CriticalHealthThreshold /\ reactive_draw
       THEN "bearing_replacement"
  ELSE None

\* MaintenanceScheduler.should_perform_maintenance(timestep, motor_id,
\* bearing_health); reactive_draw and scheduled_draw are the outcomes of
\* np.random.random() < reactive_prob_per_step and np.random.random() < 0.1
should_perform_maintenance(enable, timestep, bearing_health, reactive_draw, scheduled_draw) ==
  IF ~enable THEN None
  ELSE IF bearing_health < CriticalHealthThreshold /\ reactive_draw
       THEN "bearing_replacement"
  ELSE IF timestep % ScheduledInterval < ScheduledWindow /\ scheduled_draw
       THEN "lubrication"
  ELSE None

\* arguments of the direct calls explored: ticks at the edges of the
\* lubrication window, healths around critical_health_threshold
QueryTimesteps ==
  {0, ScheduledWindow - 1, ScheduledWindow, ScheduledInterval - 1,
   ScheduledInterval, ScheduledInterval + ScheduledWindow - 1,
   ScheduledInterval + ScheduledWindow}
QueryHealthSamples ==
  {0, CriticalHealthThreshold - 1, CriticalHealthThreshold, Stage0BaseHealth}

\* dictionary helpers
Put(f, k, v) == [x \in (DOMAIN f) \cup {k} |-> IF x = k THEN v ELSE f[x]]
Del(f, k) == [x \in (DOMAIN f) \ {k} |-> f[x]]
EmptyDict == [x \in {} |-> 0]
RemoveFirst(s, v) ==
  IF \E i \in 1 .. Len(s) : s[i] = v
  THEN LET i == CHOOSE j \in 1 .. Len(s) : s[j] = v /\ \A k \in 1 .. (j - 1) : s[k] # v
       IN SubSeq(s, 1, i - 1) \o SubSeq(s, i + 1, Len(s))
  ELSE s

\* ------------------------------------------------------------------ state
VARIABLES
  factory,            \* manager.factory is not None
  motors,             \* factory.motors: motor_id -> MotorHiddenState
  motor_config,       \* thresholds in each motor's config dictionary
  thermal,            \* temperature channel of one motor (Motor.temperature, drift, faults)
  enable_maintenance, \* factory.maintenance_scheduler.enable_maintenance
  enable_regimes,     \* factory.enable_regimes
  events,             \* factory.maintenance_scheduler.events
  last_query,         \* the last should_perform_maintenance call and its result
  f_time,             \* factory.time
  current_regime, regime_timer, regime_duration,
  scheduled_automatic_maintenance,  \* motor_id -> scheduled tick
  previous_health_states,           \* motor_id -> health state seen last step
  config,             \* manager.config
  history,            \* manager.history (record keys)
  current_time,       \* manager.current_time
  state,              \* manager.state
  alert_threshold,    \* manager.alert_threshold
  paused_motors,      \* motor_id -> [health, timestamp]
  failed_motors,      \* motor_id -> [failure_time, health_at_failure]
  pending_decisions,  \* list of motor ids
  gen,                \* locals of InstantaneousStrategy.generate_until_all_critical
  last_records,       \* full records produced by the last operation
  last_emitted,       \* per motor: health and stage of its latest record
  last_error,         \* the exception the last call ended with, or None
  inits,              \* number of initialisations so far
  last_decision,      \* the operator decision the last call applied, if any
  reference           \* history returned by an earlier, independent run

factory_vars == <<factory, motors, motor_config, thermal, enable_maintenance, enable_regimes, events, last_query, f_time,
                  current_regime, regime_timer, regime_duration,
                  scheduled_automatic_maintenance, previous_health_states>>
regime_vars == <<current_regime, regime_timer, regime_duration>>
decision_vars == <<paused_motors, failed_motors, pending_decisions>>
vars == <<factory, motors, motor_config, thermal, enable_maintenance, enable_regimes, events, last_query, f_time,
          current_regime, regime_timer, regime_duration,
          scheduled_automatic_maintenance, previous_health_states,
          config, history, current_time, state, alert_threshold,
          paused_motors, failed_motors, pending_decisions,
          gen, last_records, last_emitted, last_error, inits, last_decision,
          reference>>

DefaultConfig ==
  [ target_maintenance_cycles |-> 1,
    warning_threshold |-> WarningThresholdDefault,
    critical_threshold |-> CriticalThresholdDefault,
    degradation_speed |-> 1 ]

GenIdle ==
  [ pc |-> "idle", max_steps |-> 0, global_timestep |-> 0, idx |-> 0,
    motor_cycles_completed |-> [m \in Motors |-> 0],
    motor_completed |-> [m \in Motors |-> FALSE],
    batch_records |-> <<>>, timestep_records |-> <<>>,
    ended |-> None,
    overwrote |-> FALSE ]   \* the entry just discarded an earlier clock or history

NoReference == [set |-> FALSE, history |-> <<>>]

NoDecision == [op |-> None, motor_id |-> 0]

\* no should_perform_maintenance call has been made on this scheduler
NoQuery ==
  [ asked |-> FALSE, timestep |-> 0, bearing_health |-> 0,
    reactive_draw |-> FALSE, scheduled_draw |-> FALSE, result |-> None ]

NoEmission == [m \in Motors |-> [valid |-> FALSE, motor_health |-> 0, degradation_stage |-> 0]]

\* SimulatorManager.__init__
Init ==
  /\ factory = FALSE
  /\ motors = EmptyDict
  /\ motor_config = [healthy_threshold |-> HealthyThresholdDefault,
                     warning_threshold |-> WarningThresholdDefault]
  /\ thermal = NewThermal
  /\ enable_maintenance = TRUE
  /\ enable_regimes = TRUE
  /\ events = <<>>
  /\ last_query = NoQuery
  /\ f_time = 0
  /\ current_regime = NORMAL
  /\ regime_timer = 0
  /\ regime_duration = RegimeBase
  /\ scheduled_automatic_maintenance = EmptyDict
  /\ previous_health_states = EmptyDict
  /\ config = DefaultConfig
  /\ history = <<>>
  /\ current_time = 0
  /\ state = STOPPED
  /\ alert_threshold = AlertThresholdDefault
  /\ paused_motors = EmptyDict
  /\ failed_motors = EmptyDict
  /\ pending_decisions = <<>>
  /\ gen = GenIdle
  /\ last_records = <<>>
  /\ last_emitted = NoEmission
  /\ last_error = None
  /\ inits = 0
  /\ last_decision = NoDecision
  /\ reference = NoReference

Idle == gen.pc = "idle"

\* FactorySimulator.__init__ with the motors drawn by _create_motor, followed
\* by the caller's scaling of the stage durations (speed 1: no scaling)
NewFactory(draws, healthy_threshold, warning_threshold, maintenance, regimes, speed) ==
  /\ factory' = TRUE
  /\ motors' = [m \in Motors |->
                  ScaleDurations(
                    CreateMotor(draws[m][1], draws[m][2], draws[m][3], draws[m][4]),
                    speed)]
  /\ motor_config' = [healthy_threshold |-> healthy_threshold,
                      warning_threshold |-> warning_threshold]
  /\ thermal' = NewThermal
  /\ enable_maintenance' = maintenance
  /\ enable_regimes' = regimes
  /\ events' = <<>>
  /\ last_query' = NoQuery
  /\ f_time' = 0
  /\ current_regime' = NORMAL
  /\ regime_timer' = 0
  /\ regime_duration' = RegimeBase
  /\ scheduled_automatic_maintenance' = EmptyDict
  /\ previous_health_states' = EmptyDict

\* SimulatorManager.initialize, lines 76-84: the manager's bookkeeping
ManagerReset(cfg) ==
  /\ inits < MaxInits
  /\ inits' = inits + 1
  /\ last_decision' = NoDecision
  /\ UNCHANGED reference
  /\ config' = cfg
  /\ history' = <<>>
  /\ current_time' = 0
  /\ state' = PAUSED
  /\ paused_motors' = EmptyDict
  /\ failed_motors' = EmptyDict
  /\ pending_decisions' = <<>>

\* SimulatorManager.initialize(config): REALISTIC_CONFIG has no threshold
\* keys, so the motors fall back to the defaults of Motor.step;
\* degradation_speed multiplies the config key base_decay, which no code
\* reads, and leaves the stage durations as drawn
InitializeWith(configs) ==
  /\ Idle
  /\ \E cfg \in configs, draws \in [Motors -> CycleDraws] :
       /\ NewFactory(draws, HealthyThresholdDefault, WarningThresholdDefault, TRUE, TRUE, 1)
       /\ ManagerReset(cfg)
  /\ gen' = GenIdle
  /\ last_records' = <<>>
  /\ last_emitted' = NoEmission
  /\ last_error' = None
  /\ UNCHANGED alert_threshold

Initialize == InitializeWith(ManagerConfigs)

\* SimulatorManager.initialize(SimulatorConfig())
DefaultInitialize == InitializeWith({DefaultConfig})

\* SimulatorManager.initialize with a degradation_speed of 1.0 or 2.0
SpeedInitialize == InitializeWith(SpeedConfigs)

\* manager.factory = strategy.initialize_factory(config): the UI's
\* warning_threshold is stored under the motor config key "warning_threshold",
\* the UI's critical_threshold under "critical_threshold", a key Motor.step
\* never reads; the stage durations are scaled by 1 / degradation_speed; the
\* manager's bookkeeping is reset as in initialize
StrategyInitialize(live, configs) ==
  /\ Idle
  /\ \E cfg \in configs, draws \in [Motors -> CycleDraws] :
       /\ NewFactory(draws, HealthyThresholdDefault, cfg.warning_threshold, ~live,
                     TRUE, cfg.degradation_speed)
       /\ ManagerReset(cfg)
  /\ last_error' = None
  /\ gen' = GenIdle
  /\ last_records' = <<>>
  /\ last_emitted' = NoEmission
  /\ UNCHANGED alert_threshold

\* LiveModeStrategy.initialize_factory: enable_maintenance=False
LiveInitializeFactory == StrategyInitialize(TRUE, Configs)

\* InstantaneousStrategy.initialize_factory: enable_maintenance=True
InstantaneousInitializeFactory == StrategyInitialize(FALSE, Configs)

\* InstantaneousStrategy.initialize_factory with the default configuration
DetInitializeFactory == StrategyInitialize(FALSE, {DefaultConfig})

\* LiveModeStrategy.initialize_factory with the default configuration
DefaultLiveInitializeFactory == StrategyInitialize(TRUE, {DefaultConfig})

\* InstantaneousStrategy.initialize_factory with a degradation_speed of 1.0
\* or 2.0
SpeedInitializeFactory == StrategyInitialize(FALSE, SpeedConfigs)

\* the draws of the fleet whose regime is observed: the shortest life and
\* the shortest first two stages
RegimeCycleDraws == {<<MinHours, Stage0MinPct, Stage1MinPct, 2>>}

\* manager.factory = FactorySimulator(num_motors, base_config,
\* enable_regimes=regimes) with the default run configuration: the
\* constructor's flag decides whether step() updates the regime
RegimeInitializeFactory ==
  /\ Idle
  /\ \E regimes \in BOOLEAN, draws \in [Motors -> RegimeCycleDraws] :
       /\ NewFactory(draws, HealthyThresholdDefault, DefaultConfig.warning_threshold,
                     TRUE, regimes, DefaultConfig.degradation_speed)
       /\ ManagerReset(DefaultConfig)
  /\ last_error' = None
  /\ gen' = GenIdle
  /\ last_records' = <<>>
  /\ last_emitted' = NoEmission
  /\ UNCHANGED alert_threshold

\* the draws of one motor creation when the base configuration sets
\* min_hours_to_critical = max_hours_to_critical = LongHours
LongLifeCycleDraws == {LongHours} \X Stage0PctDraws \X Stage1PctDraws \X Stage1ExpDraws

\* InstantaneousStrategy.initialize_factory with the default run configuration
\* on a base configuration whose lifespans are LongHours
LongLifeInitializeFactory ==
  /\ Idle
  /\ \E draws \in [Motors -> LongLifeCycleDraws] :
       /\ NewFactory(draws, HealthyThresholdDefault, DefaultConfig.warning_threshold,
                     TRUE, TRUE, DefaultConfig.degradation_speed)
       /\ ManagerReset(DefaultConfig)
  /\ last_error' = None
  /\ gen' = GenIdle
  /\ last_records' = <<>>
  /\ last_emitted' = NoEmission
  /\ UNCHANGED alert_threshold

\* ---------------------------------- ui/strategies/instantaneous_strategy.py
MaxStepsChoices == {MaxStepsBound}

\* the key fields of a record, as stored in history
RecordKey(m, cycle, time2, event) ==
  [ motor_id |-> m, cycle_id |-> cycle, time2 |-> time2, maintenance_event |-> event ]

\* a full record: Motor.step's dictionary updated with the strategy's fields
\* (regime is the factory's current_regime), together with the health and
\* stage of the motor's previous record
FullRecord(ms, m, cycle, time2, event, prev) ==
  [ motor_id |-> m, cycle_id |-> cycle, time2 |-> time2, maintenance_event |-> event,
    regime |-> current_regime, sensors |-> Sensors(ms), prev |-> prev ]

KeyOf(r) == RecordKey(r.motor_id, r.cycle_id, r.time2, r.maintenance_event)
Emission(ms) == [valid |-> TRUE, motor_health |-> ms.motor_health,
                 degradation_stage |-> ms.degradation_stage]

RECURSIVE Keys(_)
Keys(recs) == IF recs = <<>> THEN <<>> ELSE <<KeyOf(Head(recs))>> \o Keys(Tail(recs))

AllCompleted(g) == \A m \in Motors : g.motor_completed[m]

\* a start that keeps the clock and the history of earlier calls
GenStartWithKeepHistory(choices) ==
  /\ Idle
  /\ factory
  /\ \E max_steps \in choices, recovery \in [Motors -> RecoveryDraws] :
       /\ motors' = [m \in Motors |-> ResetHealthOnly(motors[m], recovery[m])]
       /\ gen' = [GenIdle EXCEPT !.pc = "loop", !.max_steps = max_steps,
                                 !.overwrote = (history # <<>> \/ current_time # 0)]
  /\ last_records' = <<>>
  /\ last_emitted' = NoEmission
  /\ last_error' = None
  /\ UNCHANGED <<factory, motor_config, thermal, enable_maintenance, enable_regimes, events, last_query, f_time, regime_vars,
                 scheduled_automatic_maintenance, previous_health_states,
                 config, state, alert_threshold, decision_vars, inits, reference,
                 history, current_time>>
  /\ last_decision' = NoDecision

\* generate_until_all_critical, lines 179-218: reset of clock, history and motors
GenStartWith(choices) ==
  /\ Idle
  /\ factory
  /\ \E max_steps \in choices, recovery \in [Motors -> RecoveryDraws] :
       /\ motors' = [m \in Motors |-> ResetHealthOnly(motors[m], recovery[m])]
       /\ gen' = [GenIdle EXCEPT !.pc = "loop", !.max_steps = max_steps,
                                 !.overwrote = (history # <<>> \/ current_time # 0)]
  /\ current_time' = 0
  /\ history' = <<>>
  /\ last_records' = <<>>
  /\ last_emitted' = NoEmission
  /\ last_error' = None
  /\ UNCHANGED <<factory, motor_config, thermal, enable_maintenance, enable_regimes, events, last_query, f_time, regime_vars,
                 scheduled_automatic_maintenance, previous_health_states,
                 config, state, alert_threshold, decision_vars, inits, reference>>
  /\ last_decision' = NoDecision

\* generate_until_all_critical(max_steps)
GenStart == GenStartWith(MaxStepsChoices)

\* generate_until_all_critical(max_steps) with the short horizon DetSteps
DetGenStart == GenStartWith({DetSteps})

\* generate_until_all_critical(max_steps) with a horizon that covers one
\* whole life of the long-lived fleet
LongLifeGenStart == GenStartWith({LongHours + 1})

\* lines 179-180: the call on a manager without factory
GenStartNoFactory ==
  /\ Idle
  /\ ~factory
  /\ last_error' = "ValueError"
  /\ last_records' = <<>>
  /\ last_decision' = NoDecision
  /\ UNCHANGED <<inits, reference, factory_vars, config, history, current_time, state, alert_threshold,
                 decision_vars, gen, last_emitted>>

MemoryCheckDue(g) == g.global_timestep % MemCheckEvery = 0 /\ g.global_timestep > 0

\* a loop head that admits one tick more than max_steps
GenContinueOffByOne ==
  /\ gen.pc = "loop"
  /\ ~AllCompleted(gen)
  /\ gen.global_timestep <= gen.max_steps
  /\ gen' = [gen EXCEPT !.pc = "motors", !.idx = 0, !.timestep_records = <<>>,
                        !.overwrote = FALSE]
  /\ last_records' = <<>>
  /\ UNCHANGED <<inits, last_decision, reference, factory_vars, config, history, current_time, state, alert_threshold,
                 decision_vars, last_emitted, last_error>>

\* line 221: the loop condition holds and the memory check (if due) passes
GenContinue ==
  /\ gen.pc = "loop"
  /\ ~AllCompleted(gen)
  /\ gen.global_timestep < gen.max_steps
  /\ gen' = [gen EXCEPT !.pc = "motors", !.idx = 0, !.timestep_records = <<>>,
                        !.overwrote = FALSE]
  /\ last_records' = <<>>
  /\ UNCHANGED <<inits, last_decision, reference, factory_vars, config, history, current_time, state, alert_threshold,
                 decision_vars, last_emitted, last_error>>

\* an end of tick that flushes the batch before the tick's records join it
TickEndFlushFirst(g, hist) ==
  LET flush == Len(g.batch_records) + Len(g.timestep_records) >= BatchSize
  IN /\ gen' = [g EXCEPT !.pc = "loop",
                         !.batch_records = IF flush THEN <<>>
                                           ELSE g.batch_records \o Keys(g.timestep_records),
                         !.timestep_records = <<>>,
                         !.global_timestep = g.global_timestep + 1]
     /\ history' = IF flush THEN hist \o g.batch_records ELSE hist
     /\ current_time' = current_time + 1

\* lines 292-300: end of the tick
TickEnd(g, hist) ==
  LET batch == g.batch_records \o Keys(g.timestep_records)
      flush == Len(batch) >= BatchSize
  IN /\ gen' = [g EXCEPT !.pc = "loop",
                         !.batch_records = IF flush THEN <<>> ELSE batch,
                         !.timestep_records = <<>>,
                         !.global_timestep = g.global_timestep + 1]
     /\ history' = IF flush THEN hist \o batch ELSE hist
     /\ current_time' = current_time + 1

\* after the motor at gen.idx: next motor, or the end of the tick
AfterMotor(g) ==
  IF g.idx + 1 = NumMotors
  THEN TickEnd(g, history)
  ELSE /\ gen' = [g EXCEPT !.idx = g.idx + 1]
       /\ UNCHANGED <<history, current_time>>

\* a loop that never skips a motor: completed motors keep being stepped
MotorSkippedNever(g, m) == FALSE

\* lines 235-237: motors that completed all their cycles are skipped
MotorSkipped(g, m) == g.motor_completed[m]

\* a cycle numbering that uses the counter after its increment
CurrentCycleAfterIncrement(done) == done

\* lines 245-246: the cycle that closes is numbered by the count before the
\* increment
CurrentCycle(done) == done - 1

\* lines 232-290: one iteration of the motor loop
GenMotor ==
  /\ gen.pc = "motors"
  /\ LET m == gen.idx IN
     IF MotorSkipped(gen, m)
     THEN /\ AfterMotor(gen)
          /\ last_records' = <<>>
          /\ UNCHANGED <<motors, last_emitted>>
     ELSE \E noise \in StepNoise(motors[m]) :
       LET ms1 == MotorStep(motors[m], motor_config, noise) IN
       IF ms1.health_state = CRITICAL
       THEN \E h \in AutoMaintHealthDraws, d \in CycleDraws,
               r \in IF gen.motor_cycles_completed[m] + 1 >= config.target_maintenance_cycles
                     THEN {Stage0BaseHealth} ELSE RecoveryDraws :
         LET done == gen.motor_cycles_completed[m] + 1
             cycle == CurrentCycle(done)
             rec1 == FullRecord(ms1, m, cycle, 2 * current_time, None, last_emitted[m])
             ms2 == PerformAutomaticMaintenance(ms1, h, d[1], d[2], d[3], d[4])
         IN \E noise2 \in StepNoise(ms2) :
           LET ms3 == MotorStep(ms2, motor_config, noise2)
               rec2 == FullRecord(ms3, m, cycle, 2 * current_time + 1,
                                  "automatic_maintenance", Emission(ms1))
               finished == done >= config.target_maintenance_cycles
           IN /\ motors' = [motors EXCEPT ![m] =
                              IF finished THEN ms3 ELSE ResetHealthOnly(ms3, r)]
              /\ last_records' = <<rec1, rec2>>
              /\ last_emitted' = [last_emitted EXCEPT ![m] = Emission(ms3)]
              /\ AfterMotor([gen EXCEPT
                   !.motor_cycles_completed[m] = done,
                   !.motor_completed[m] = finished,
                   !.timestep_records = @ \o <<rec1, rec2>>])
       ELSE
         LET rec == FullRecord(ms1, m, gen.motor_cycles_completed[m],
                               2 * current_time, None, last_emitted[m])
         IN /\ motors' = [motors EXCEPT ![m] = ms1]
            /\ last_records' = <<rec>>
            /\ last_emitted' = [last_emitted EXCEPT ![m] = Emission(ms1)]
            /\ AfterMotor([gen EXCEPT !.timestep_records = @ \o <<rec>>])
  /\ UNCHANGED <<factory, motor_config, thermal, enable_maintenance, enable_regimes, events, last_query, f_time, regime_vars,
                 scheduled_automatic_maintenance, previous_health_states,
                 config, state, alert_threshold, decision_vars, last_error, inits, last_decision, reference>>

\* lines 307-334: flush of the remaining batch and return of the history
Finish(reason) ==
  /\ history' = history \o gen.batch_records
  /\ gen' = [gen EXCEPT !.pc = "idle", !.batch_records = <<>>,
                        !.timestep_records = <<>>, !.ended = reason,
                        !.overwrote = FALSE]
  /\ last_records' = <<>>
  /\ last_error' = None
  /\ UNCHANGED <<inits, last_decision, reference, factory_vars, config, current_time, state, alert_threshold,
                 decision_vars, last_emitted>>

\* line 221: the loop condition fails
GenEnd ==
  /\ gen.pc = "loop"
  /\ AllCompleted(gen) \/ gen.global_timestep >= gen.max_steps
  /\ Finish(IF AllCompleted(gen) THEN "Completed" ELSE "MaxSteps")

\* lines 225-229: the memory check fails and the loop is left
GenMemoryBreak ==
  /\ gen.pc = "loop"
  /\ ~AllCompleted(gen)
  /\ gen.global_timestep < gen.max_steps
  /\ MemoryCheckDue(gen)
  /\ Finish("MemoryGuard")

\* ------------------------------------------------- simulator/factory.py
\* MaintenanceScheduler.should_perform_maintenance is declared with the
\* parameters (timestep, motor_id, bearing_health); FactorySimulator.step
\* calls it with the keywords timestep, motor_id, motor_health.  Python
\* rejects the unknown keyword before the body runs: TRUE iff the call binds.
MaintenanceQueryBinds ==
  {"timestep", "motor_id", "motor_health"} \subseteq {"timestep", "motor_id", "bearing_health"}

ScheduleDelayDraws == {1, MaxScheduleDelay}

\* a regime update that draws a new regime at every tick, whatever the timer
RegimeUpdateEveryTick ==
  IF ~enable_regimes THEN UNCHANGED <<current_regime, regime_timer, regime_duration>>
  ELSE /\ current_regime' \in RegimeSuccessors(current_regime)
       /\ regime_timer' = IF regime_timer + 1 >= regime_duration THEN 0 ELSE regime_timer + 1
       /\ regime_duration' \in IF regime_timer + 1 >= regime_duration
                                THEN RegimeDurationDraws ELSE {regime_duration}

\* FactorySimulator.step, lines 191-199: regime update
RegimeUpdate ==
  IF ~enable_regimes THEN UNCHANGED <<current_regime, regime_timer, regime_duration>>
  ELSE IF regime_timer + 1 >= regime_duration
  THEN /\ current_regime' \in RegimeSuccessors(current_regime)
       /\ regime_timer' = 0
       /\ regime_duration' \in RegimeDurationDraws
  ELSE /\ regime_timer' = regime_timer + 1
       /\ UNCHANGED <<current_regime, regime_duration>>

\* FactorySimulator.step up to the maintenance query of the first motor
\* (lines 191-247), where the call raises TypeError: the regime is advanced,
\* motor 0's entry into Critical is scheduled, its previous state recorded,
\* a due automatic maintenance performed; factory.time is not advanced
FactoryStepRaises ==
  /\ ~MaintenanceQueryBinds
  /\ RegimeUpdate
  /\ LET m == 0
         entering == /\ (m \notin DOMAIN previous_health_states
                         \/ previous_health_states[m] # CRITICAL)
                     /\ motors[m].health_state = CRITICAL
                     /\ m \notin DOMAIN scheduled_automatic_maintenance
     IN /\ previous_health_states' = Put(previous_health_states, m, motors[m].health_state)
        /\ \E delay \in IF entering THEN ScheduleDelayDraws ELSE {0} :
             LET sched == IF entering
                          THEN Put(scheduled_automatic_maintenance, m, f_time + delay)
                          ELSE scheduled_automatic_maintenance
                 due == /\ m \in DOMAIN sched
                        /\ f_time >= sched[m]
                        /\ motors[m].motor_health < AutoMaintHealthLimit
             IN IF due
                THEN \E h \in AutoMaintHealthDraws, d \in CycleDraws :
                       /\ motors' = [motors EXCEPT ![m] =
                            PerformAutomaticMaintenance(motors[m], h, d[1], d[2], d[3], d[4])]
                       /\ scheduled_automatic_maintenance' = Del(sched, m)
                ELSE /\ motors' = motors
                     /\ scheduled_automatic_maintenance' = sched
  /\ UNCHANGED <<factory, motor_config, thermal, enable_maintenance, enable_regimes, events, last_query, f_time>>

\* a call whose first Factory.step raises: nothing is returned, the manager's
\* clock and history are left as they were
StepCall ==
  /\ Idle
  /\ IF factory
     THEN /\ FactoryStepRaises
          /\ last_error' = "TypeError"
     ELSE /\ last_error' = "ValueError"
          /\ UNCHANGED factory_vars
  /\ last_records' = <<>>
  /\ last_decision' = NoDecision
  /\ UNCHANGED <<inits, reference, config, history, current_time, state, alert_threshold,
                 decision_vars, gen, last_emitted>>

\* SimulatorManager.step(num_steps), num_steps >= 1
ManagerStep == StepCall

\* LiveModeStrategy.step(num_steps), num_steps >= 1
LiveStep == StepCall

\* InstantaneousStrategy.step(num_steps), num_steps >= 1
InstantaneousStep == StepCall

\* SimulatorManager.generate_until_all_critical(max_steps), max_steps >= 1
ManagerGenerate == StepCall

\* manager.factory.step(), called directly
FactoryStep == StepCall

\* ------------------------------------------------ ui/simulator_manager.py
PauseHealthChoices == {15}

\* SimulatorManager._pause_motor_for_decision
PauseMotorForDecision(m, health) ==
  IF m \notin DOMAIN paused_motors
  THEN /\ paused_motors' = Put(paused_motors, m,
                               [health |-> health, timestamp |-> current_time])
       /\ pending_decisions' = Append(pending_decisions, m)
  ELSE UNCHANGED <<paused_motors, pending_decisions>>

PauseMotor ==
  /\ Idle
  /\ \E m \in Motors, health \in PauseHealthChoices :
       /\ PauseMotorForDecision(m, health)
       /\ last_error' = None
  /\ last_records' = <<>>
  /\ last_decision' = NoDecision
  /\ UNCHANGED <<inits, reference, factory_vars, config, history, current_time, state, alert_threshold,
                 failed_motors, gen, last_emitted>>

\* SimulatorManager.reset_motor: the hidden health is set to 1.0
ResetMotorEffect(m) ==
  motors' = [motors EXCEPT ![m].motor_health = 100]

ResetMotor ==
  /\ Idle
  /\ IF factory
     THEN \E m \in Motors :
            /\ ResetMotorEffect(m)
            /\ last_error' = None
     ELSE /\ last_error' = "ValueError"
          /\ UNCHANGED motors
  /\ last_records' = <<>>
  /\ last_decision' = NoDecision
  /\ UNCHANGED <<factory, motor_config, thermal, enable_maintenance, enable_regimes, events, last_query, f_time, regime_vars,
                 scheduled_automatic_maintenance, previous_health_states,
                 inits, reference, config, history, current_time, state, alert_threshold,
                 decision_vars, gen, last_emitted>>

\* SimulatorManager.inject_failure
InjectFailure ==
  /\ Idle
  /\ IF factory
     THEN \E m \in Motors :
            /\ motors' = [motors EXCEPT ![m].motor_health = 10]
            /\ last_error' = None
     ELSE /\ last_error' = "ValueError"
          /\ UNCHANGED motors
  /\ last_records' = <<>>
  /\ last_decision' = NoDecision
  /\ UNCHANGED <<factory, motor_config, thermal, enable_maintenance, enable_regimes, events, last_query, f_time, regime_vars,
                 scheduled_automatic_maintenance, previous_health_states,
                 inits, reference, config, history, current_time, state, alert_threshold,
                 decision_vars, gen, last_emitted>>

\* motor_id arguments of the decision calls: the ids of the fleet and one id
\* that no motor has
MotorIds == Motors \cup {NumMotors}

\* the decision a call applied: its name and its motor
Decision(op, m) == [op |-> op, motor_id |-> m]

\* handle_motor_failure that stamps the failure with the motor's present
\* health instead of the health captured when it was paused
HandleMotorFailureLiveHealth ==
  /\ Idle
  /\ \E m \in MotorIds :
       IF m \in DOMAIN paused_motors
       THEN /\ failed_motors' = Put(failed_motors, m,
                                    [failure_time |-> current_time,
                                     health_at_failure |-> motors[m].motor_health])
            /\ paused_motors' = Del(paused_motors, m)
            /\ pending_decisions' = RemoveFirst(pending_decisions, m)
            /\ last_decision' = Decision("handle_motor_failure", m)
       ELSE /\ UNCHANGED decision_vars
            /\ last_decision' = NoDecision
  /\ last_error' = None
  /\ last_records' = <<>>
  /\ UNCHANGED <<inits, reference, factory_vars, config, history, current_time, state, alert_threshold,
                 gen, last_emitted>>

\* SimulatorManager.handle_motor_failure(motor_id): a motor_id that is not in
\* paused_motors falls through the if and the call returns None
HandleMotorFailure ==
  /\ Idle
  /\ \E m \in MotorIds :
       IF m \in DOMAIN paused_motors
       THEN /\ failed_motors' = Put(failed_motors, m,
                                    [failure_time |-> current_time,
                                     health_at_failure |-> paused_motors[m].health])
            /\ paused_motors' = Del(paused_motors, m)
            /\ pending_decisions' = RemoveFirst(pending_decisions, m)
            /\ last_decision' = Decision("handle_motor_failure", m)
       ELSE /\ UNCHANGED decision_vars
            /\ last_decision' = NoDecision
  /\ last_error' = None
  /\ last_records' = <<>>
  /\ UNCHANGED <<inits, reference, factory_vars, config, history, current_time, state, alert_threshold,
                 gen, last_emitted>>

\* SimulatorManager.handle_motor_maintenance(motor_id)
HandleMotorMaintenance ==
  /\ Idle
  /\ \E m \in MotorIds :
       IF m \in DOMAIN paused_motors
       THEN IF factory
            THEN /\ ResetMotorEffect(m)
                 /\ paused_motors' = Del(paused_motors, m)
                 /\ pending_decisions' = RemoveFirst(pending_decisions, m)
                 /\ last_error' = None
                 /\ last_decision' = Decision("handle_motor_maintenance", m)
            ELSE /\ last_error' = "ValueError"
                 /\ last_decision' = NoDecision
                 /\ UNCHANGED <<motors, paused_motors, pending_decisions>>
       ELSE /\ last_error' = None
            /\ last_decision' = NoDecision
            /\ UNCHANGED <<motors, paused_motors, pending_decisions>>
  /\ last_records' = <<>>
  /\ UNCHANGED <<factory, motor_config, thermal, enable_maintenance, enable_regimes, events, last_query, f_time, regime_vars,
                 scheduled_automatic_maintenance, previous_health_states,
                 inits, reference, config, history, current_time, state, alert_threshold,
                 failed_motors, gen, last_emitted>>

\* SimulatorManager.restore_failed_motor(motor_id)
RestoreFailedMotor ==
  /\ Idle
  /\ \E m \in MotorIds :
       IF m \in DOMAIN failed_motors
       THEN IF factory
            THEN /\ ResetMotorEffect(m)
                 /\ failed_motors' = Del(failed_motors, m)
                 /\ last_error' = None
                 /\ last_decision' = Decision("restore_failed_motor", m)
            ELSE /\ last_error' = "ValueError"
                 /\ last_decision' = NoDecision
                 /\ UNCHANGED <<motors, failed_motors>>
       ELSE /\ last_error' = None
            /\ last_decision' = NoDecision
            /\ UNCHANGED <<motors, failed_motors>>
  /\ last_records' = <<>>
  /\ UNCHANGED <<factory, motor_config, thermal, enable_maintenance, enable_regimes, events, last_query, f_time, regime_vars,
                 scheduled_automatic_maintenance, previous_health_states,
                 inits, reference, config, history, current_time, state, alert_threshold,
                 paused_motors, pending_decisions, gen, last_emitted>>

\* the parts of a run-state call that are common to pause, resume and stop:
\* only manager.state can change
RunStateCall ==
  /\ Idle
  /\ last_error' = None
  /\ last_records' = <<>>
  /\ last_decision' = NoDecision
  /\ UNCHANGED <<factory_vars, inits, reference, config, history, current_time,
                 alert_threshold, decision_vars, gen, last_emitted>>

\* SimulatorManager.pause
Pause ==
  /\ RunStateCall
  /\ state' = IF state = RUNNING THEN PAUSED ELSE state

\* SimulatorManager.resume
Resume ==
  /\ RunStateCall
  /\ state' = IF state = PAUSED /\ factory THEN RUNNING ELSE state

\* SimulatorManager.stop
Stop ==
  /\ RunStateCall
  /\ state' = STOPPED

\* a restart that only switches the state, without initialize(self.config)
RestartWithoutInitialize ==
  /\ RunStateCall
  /\ state' = IF factory THEN RUNNING ELSE state

\* SimulatorManager.restart: initialize(self.config) and RUNNING when a
\* factory exists, nothing otherwise; the records of an earlier generation
\* call (gen) are not a field of the manager and are left alone
Restart ==
  /\ Idle
  /\ IF factory
     THEN /\ \E draws \in [Motors -> CycleDraws] :
               NewFactory(draws, HealthyThresholdDefault, WarningThresholdDefault, TRUE, TRUE, 1)
          /\ history' = <<>>
          /\ current_time' = 0
          /\ paused_motors' = EmptyDict
          /\ failed_motors' = EmptyDict
          /\ pending_decisions' = <<>>
          /\ state' = RUNNING
     ELSE UNCHANGED <<factory_vars, history, current_time, decision_vars, state>>
  /\ last_error' = None
  /\ last_records' = <<>>
  /\ last_decision' = NoDecision
  /\ UNCHANGED <<inits, reference, config, alert_threshold, gen, last_emitted>>

\* factory.maintenance_scheduler.should_perform_maintenance(timestep,
\* motor_id, bearing_health): a direct call with the declared parameters
MaintenanceQuery ==
  /\ Idle
  /\ factory
  /\ \E timestep \in QueryTimesteps, bearing_health \in QueryHealthSamples,
        reactive_draw \in BOOLEAN, scheduled_draw \in BOOLEAN :
       last_query' =
         [ asked |-> TRUE, timestep |-> timestep, bearing_health |-> bearing_health,
           reactive_draw |-> reactive_draw, scheduled_draw |-> scheduled_draw,
           result |-> should_perform_maintenance(enable_maintenance, timestep,
                        bearing_health, reactive_draw, scheduled_draw) ]
  /\ last_error' = None
  /\ last_records' = <<>>
  /\ last_decision' = NoDecision
  /\ UNCHANGED <<factory, motors, motor_config, thermal, enable_maintenance, enable_regimes, events,
                 f_time, regime_vars, scheduled_automatic_maintenance,
                 previous_health_states, config, history, current_time, state,
                 alert_threshold, decision_vars, gen, last_emitted, inits, reference>>

\* one tick of a motor's temperature channel
ThermalStep ==
  /\ Idle
  /\ factory
  /\ thermal.steps < ThermalSteps
  /\ \E motor_health \in ThermalHealthSamples, load \in ThermalLoadSamples,
        d \in ThermalDraws :
       thermal' = ThermalMotorStep(thermal, motor_health, load, d)
  /\ UNCHANGED <<factory, motors, motor_config, enable_maintenance, enable_regimes, events, last_query, f_time,
                 regime_vars, scheduled_automatic_maintenance, previous_health_states,
                 config, history, current_time, state, alert_threshold,
                 decision_vars, gen, last_records, last_emitted, last_error,
                 inits, last_decision, reference>>

\* one tick of the temperature channel of a healthy motor at nominal load,
\* over a horizon that covers a whole flatline episode
FlatlineStep ==
  /\ Idle
  /\ factory
  /\ thermal.steps < FlatlineTicks
  /\ \E d \in FlatlineDraws :
       thermal' = ThermalMotorStep(thermal, Stage0BaseHealth, 10, d)
  /\ UNCHANGED <<factory, motors, motor_config, enable_maintenance, enable_regimes, events, last_query, f_time,
                 regime_vars, scheduled_automatic_maintenance, previous_health_states,
                 config, history, current_time, state, alert_threshold,
                 decision_vars, gen, last_records, last_emitted, last_error,
                 inits, last_decision, reference>>

\* A second, independent run of the same configuration: the history the first
\* run returned is remembered, a new SimulatorManager is constructed and
\* InstantaneousStrategy.initialize_factory builds its fleet from fresh draws
SecondRun ==
  /\ Idle
  /\ gen.ended # None
  /\ ~reference.set
  /\ reference' = [set |-> TRUE, history |-> history]
  /\ \E draws \in [Motors -> CycleDraws] :
       NewFactory(draws, HealthyThresholdDefault, config.warning_threshold, TRUE,
                  TRUE, config.degradation_speed)
  /\ history' = <<>>
  /\ current_time' = 0
  /\ state' = PAUSED
  /\ alert_threshold' = AlertThresholdDefault
  /\ paused_motors' = EmptyDict
  /\ failed_motors' = EmptyDict
  /\ pending_decisions' = <<>>
  /\ gen' = GenIdle
  /\ last_records' = <<>>
  /\ last_emitted' = NoEmission
  /\ last_error' = None
  /\ inits' = 1
  /\ last_decision' = NoDecision
  /\ UNCHANGED config

\* ------------------------------------------------------------- properties
AUTOMATIC == "automatic_maintenance"

\* number of automatic_maintenance records of motor m in a sequence of keys
RECURSIVE MaintenanceCount(_, _)
MaintenanceCount(keys, m) ==
  IF keys = <<>> THEN 0
  ELSE (IF Head(keys).motor_id = m /\ Head(keys).maintenance_event = AUTOMATIC
        THEN 1 ELSE 0) + MaintenanceCount(Tail(keys), m)

\* the run returned after the loop ended for the given reason
Returned(reason) == gen.pc = "idle" /\ gen.ended = reason

\* C2 - cycle count invariant: when batch generation has ended because every
\* motor reached its target, the history holds exactly
\* target_maintenance_cycles automatic_maintenance records of every motor.
C2_CycleCount ==
  Returned("Completed") =>
    \A m \in Motors :
      MaintenanceCount(history, m) = config.target_maintenance_cycles

\* C2 witness: a completed run with a target of two cycles in which motor 0
\* closed its last cycle at an earlier tick than motor 1.
C2_Witness ==
  /\ Returned("Completed")
  /\ config.target_maintenance_cycles = MaxTarget
  /\ \E i, j \in DOMAIN history :
       /\ history[i].motor_id = 0 /\ history[j].motor_id = 1
       /\ history[i].maintenance_event = AUTOMATIC
       /\ history[j].maintenance_event = AUTOMATIC
       /\ history[i].cycle_id = MaxTarget - 1
       /\ history[j].cycle_id = MaxTarget - 1
       /\ history[i].time2 < history[j].time2

\* a motor whose health was reset to 1.0 by a decision and that is neither
\* paused nor failed
JustMaintained(m) ==
  /\ factory
  /\ m \notin DOMAIN paused_motors
  /\ m \notin DOMAIN failed_motors
  /\ motors[m].motor_health = 100

\* C3 - maintenance resumes emission (as claimed): a step that follows
\* handle_motor_maintenance(m) returns a record of m, and that record reports
\* motor_health >= 0.9.
C3_MaintainedMotorEmitsAsClaimed ==
  [][ \A m \in Motors :
        ((ManagerStep \/ LiveStep) /\ JustMaintained(m))
        => \E i \in DOMAIN last_records' :
             /\ last_records'[i].motor_id = m
             /\ last_records'[i].sensors.motor_health >= 90 ]_vars

\* C4 - determinism (as claimed): a second independent batch run of the same
\* configuration (the configuration has no seed field that could differ) and
\* the same max_steps returns the same sequence of records as the first.
C4_DeterminismAsClaimed ==
  (reference.set /\ Idle /\ gen.ended # None) => history = reference.history

\* C5 - categorical consistency (as claimed): in every emitted record the
\* health state is Healthy iff motor_health >= the configured
\* warning_threshold, Warning iff it lies in [critical_threshold,
\* warning_threshold), Critical iff it is below the configured
\* critical_threshold.
C5_CategoricalAsClaimed ==
  \A i \in DOMAIN last_records :
    LET r == last_records[i].sensors IN
      /\ (r.health_state = HEALTHY) <=> (r.motor_health >= config.warning_threshold)
      /\ (r.health_state = WARNING) <=>
           (config.critical_threshold <= r.motor_health
            /\ r.motor_health < config.warning_threshold)
      /\ (r.health_state = CRITICAL) <=> (r.motor_health < config.critical_threshold)

\* C6 - stage consistency: in every emitted record, the maintenance-tick
\* records included, the stage is 0 iff hours < d0, 1 iff d0 <= hours < d0 + d1,
\* and 2 otherwise, for the durations the motor has when the record is made.
C6_StageConsistency ==
  \A i \in DOMAIN last_records :
    LET r == last_records[i].sensors IN
      /\ (r.degradation_stage = 0) <=> (r.hours_since_maintenance < r.d0)
      /\ (r.degradation_stage = 1) <=>
           (r.d0 <= r.hours_since_maintenance
            /\ r.hours_since_maintenance < r.d0 + r.d1)
      /\ (r.degradation_stage = 2) <=> (r.hours_since_maintenance >= r.d0 + r.d1)

\* C6 witness: a maintenance tick whose Critical record is in Stage 2 and
\* whose post-maintenance record is in Stage 0 under the regenerated durations.
C6_Witness ==
  /\ Len(last_records) = 2
  /\ last_records[1].sensors.degradation_stage = 2
  /\ last_records[2].maintenance_event = AUTOMATIC
  /\ last_records[2].sensors.degradation_stage = 0
  /\ last_records[2].sensors.d0 # last_records[1].sensors.d0

C8_HealthBounds ==
  /\ \A m \in DOMAIN motors :
       0 <= motors[m].motor_health /\ motors[m].motor_health <= 100
  /\ \A i \in DOMAIN last_records :
       /\ 0 <= last_records[i].sensors.motor_health
       /\ last_records[i].sensors.motor_health <= 100

\* C8 witness: a Stage-2 record whose health sits on the floor 0.
C8_Witness ==
  \E i \in DOMAIN last_records :
    /\ last_records[i].sensors.degradation_stage = 2
    /\ last_records[i].sensors.motor_health = 0

\* C9 - positive durations (as claimed): at fleet creation and after every
\* automatic maintenance each of the three stage durations of every motor is
\* strictly positive.
C9_PositiveDurationsAsClaimed ==
  \A m \in DOMAIN motors :
    motors[m].d0 > 0 /\ motors[m].d1 > 0 /\ motors[m].d2 > 0

\* C10 - force-close on exhaustion (as claimed): when the run returned after
\* max_steps or the memory guard, every motor still has exactly
\* target_maintenance_cycles automatic_maintenance records in the history.
C10_ForceCloseAsClaimed ==
  (Returned("MaxSteps") \/ Returned("MemoryGuard")) =>
    \A m \in Motors :
      MaintenanceCount(history, m) = config.target_maintenance_cycles

\* C12 - step advances the clock (as claimed): a SimulatorManager.step(n),
\* n >= 1, on an initialized manager with no paused and no failed motor
\* advances current_time by at least one tick, returns at least one record
\* per motor, and grows the history by the records it returns.
C12_StepAdvancesAsClaimed ==
  [][ ( /\ ManagerStep
        /\ factory
        /\ DOMAIN paused_motors = {}
        /\ DOMAIN failed_motors = {} )
      => /\ current_time' >= current_time + 1
         /\ Len(last_records') >= NumMotors
         /\ Len(history') = Len(history) + Len(last_records') ]_vars

\* C13 - failure decision: a handle_motor_failure(m) that applies moves m
\* from paused_motors to failed_motors and removes it from pending_decisions,
\* the failed entry holds the health captured at the pause and the current
\* tick; and no call returns a record of a motor that is failed.
C13_FailureDecision ==
  [][ /\ \A m \in Motors :
           last_decision' = Decision("handle_motor_failure", m)
           => /\ m \in DOMAIN paused_motors
              /\ m \notin DOMAIN paused_motors'
              /\ m \in DOMAIN failed_motors'
              /\ failed_motors'[m] = [failure_time |-> current_time,
                                      health_at_failure |-> paused_motors[m].health]
              /\ \A i \in DOMAIN pending_decisions' : pending_decisions'[i] # m
      /\ \A i \in DOMAIN last_records' :
           last_records'[i].motor_id \notin DOMAIN failed_motors ]_vars

\* C13 witness: motor 0 has just been marked failed; its entry carries the
\* health of the pause, which differs from the motor's present health, while
\* motor 1 is still waiting for its decision.
C13_Witness ==
  /\ factory
  /\ last_decision = Decision("handle_motor_failure", 0)
  /\ 0 \in DOMAIN failed_motors
  /\ failed_motors[0].health_at_failure # motors[0].motor_health
  /\ pending_decisions = <<1>>

\* C14 - restoration (as claimed): restore_failed_motor(m) on a failed motor
\* leaves m outside failed_motors with motor_health >= 0.9 and health_state
\* Healthy, and the step that follows returns exactly one record of m,
\* stamped with the current tick.
C14_RestoredMotorEmitsAsClaimed ==
  [][ \A m \in Motors :
        /\ last_decision' = Decision("restore_failed_motor", m)
           => /\ m \notin DOMAIN failed_motors'
              /\ motors'[m].motor_health >= 90
              /\ motors'[m].health_state = HEALTHY
        /\ ( /\ last_decision = Decision("restore_failed_motor", m)
             /\ (ManagerStep \/ LiveStep) )
           => Cardinality({ i \in DOMAIN last_records' :
                              /\ last_records'[i].motor_id = m
                              /\ last_records'[i].time2 = 2 * current_time }) = 1 ]_vars

\* C15 - precondition errors (as claimed): a decision call that names an
\* unknown motor, or a motor outside the set the decision applies to, ends
\* with an error and leaves the decision sets and the motors unchanged.
C15_DecisionErrorAsClaimed ==
  [][ ( /\ HandleMotorFailure \/ HandleMotorMaintenance \/ RestoreFailedMotor
        /\ last_decision' = NoDecision )
      => /\ last_error' # None
         /\ UNCHANGED <<decision_vars, motors>> ]_vars

\* every record accepted so far by the running (or returned) generation, in
\* the order of acceptance: stored history, pending batch, current tick
Pipeline == history \o gen.batch_records \o Keys(gen.timestep_records)

\* positions of motor m's records in a sequence of record keys
PositionsOf(keys, m) == { i \in DOMAIN keys : keys[i].motor_id = m }

\* the smallest element of a non-empty set of naturals
Least(S) == CHOOSE i \in S : \A j \in S : i <= j

\* a generation is running or has returned
InRun == gen.pc # "idle" \/ gen.ended # None

\* the records held belong to the run in progress: none is stamped later than
\* the present tick, and every motor's first record is stamped 0
RunOnly ==
  InRun =>
    /\ \A i \in DOMAIN Pipeline : Pipeline[i].time2 <= 2 * current_time + 1
    /\ \A m \in Motors :
         PositionsOf(Pipeline, m) # {}
         => Pipeline[Least(PositionsOf(Pipeline, m))].time2 = 0

C17_LockStepAsClaimed ==
  /\ \A i \in DOMAIN history : history[i].time2 % 2 = 0
  /\ \A i, j \in DOMAIN history :
       ( /\ history[i].motor_id = history[j].motor_id
         /\ history[i].time2 \div 2 = history[j].time2 \div 2 )
       => i = j

\* the cycle ids seen for motor m in a sequence of record keys
CycleIds(keys, m) == { keys[i].cycle_id : i \in PositionsOf(keys, m) }

\* C18 - cycle ids: the cycle_id of every stored record equals the number of
\* automatic_maintenance records of the same motor stored before it, and after
\* a completed run the ids seen for each motor are 0 .. target - 1.
C18_CycleIds ==
  /\ \A i \in DOMAIN history :
       history[i].cycle_id =
         MaintenanceCount(SubSeq(history, 1, i - 1), history[i].motor_id)
  /\ Returned("Completed") =>
       \A m \in Motors :
         CycleIds(history, m) = 0 .. (config.target_maintenance_cycles - 1)

\* C18 witness: a completed run of two cycles per motor in which motor 1 has
\* an ordinary (non-maintenance) record in its second cycle.
C18_Witness ==
  /\ Returned("Completed")
  /\ config.target_maintenance_cycles = MaxTarget
  /\ \E i \in DOMAIN history :
       /\ history[i].motor_id = 1
       /\ history[i].cycle_id = MaxTarget - 1
       /\ history[i].maintenance_event = None
       /\ \E j \in DOMAIN history :
            /\ j > i
            /\ history[j].motor_id = 1
            /\ history[j].maintenance_event = None

\* ticks and motor iterations the running loop can still execute, at most;
\* 0 once the call has returned
StepsLeft ==
  IF gen.pc = "idle" THEN 0
  ELSE IF gen.pc = "loop"
       THEN (gen.max_steps - gen.global_timestep) * (NumMotors + 1) + 1
       ELSE (gen.max_steps - gen.global_timestep) * (NumMotors + 1) - gen.idx

\* C19 - termination: every step of a running generation strictly lowers a
\* non-negative count of the steps left (so the call returns), the loop never
\* simulates more than max_steps ticks, and a tick is started only while
\* some motor is short of its target.
C19_Termination ==
  [][ /\ gen.pc # "idle" => (StepsLeft' < StepsLeft /\ StepsLeft' >= 0)
      /\ gen'.global_timestep <= gen'.max_steps
      /\ gen'.pc = "motors" => gen'.idx \in Motors
      /\ (gen.pc = "loop" /\ gen'.pc = "motors")
         => /\ gen.global_timestep < gen.max_steps
            /\ \E m \in Motors :
                 gen.motor_cycles_completed[m] < config.target_maintenance_cycles ]_vars

\* C19 witness: the run returned as completed before max_steps ticks were
\* used, motor 0 having finished at an earlier tick than motor 1.
C19_Witness ==
  /\ Returned("Completed")
  /\ gen.global_timestep < gen.max_steps
  /\ \E i, j \in DOMAIN history :
       /\ history[i].motor_id = 0 /\ history[i].maintenance_event = AUTOMATIC
       /\ history[i].cycle_id = config.target_maintenance_cycles - 1
       /\ history[j].motor_id = 1
       /\ history[j].time2 > history[i].time2 + 1

\* C20 - records stored once and in order: every record a motor iteration
\* produces is appended to the accepted records exactly once, the loop head,
\* the batch flushes and the return neither drop, repeat nor reorder any, and
\* on return all of them are in the history the result is built from.
C20_StoredOnceInOrder ==
  [][ /\ gen.pc = "motors" => Pipeline' = Pipeline \o Keys(last_records')
      /\ gen.pc = "loop" => Pipeline' = Pipeline
      /\ (gen'.pc = "idle" /\ gen'.ended # None)
         => (gen'.batch_records = <<>> /\ gen'.timestep_records = <<>>) ]_vars

\* C20 witness: the run was cut by the memory guard after a periodic flush
\* and a final flush of a partly filled batch; the history holds both parts.
C20_Witness ==
  /\ Returned("MemoryGuard")
  /\ Len(history) > BatchSize
  /\ Len(history) % 2 = 0
  /\ \E i \in DOMAIN history : history[i].maintenance_event = AUTOMATIC

\* the life sampled for the cycle a record belongs to: the three stage
\* durations sum to target_hours_to_critical
TargetHours(r) == r.sensors.d0 + r.sensors.d1 + r.sensors.d2

\* C21 - conservation of hours (as claimed): for every cycle closed in batch
\* mode, the hours simulated in the cycle up to the tick of its Critical
\* record (the tick right before the automatic maintenance), counted with or
\* without the cycle's first tick, equal the cycle's target_hours_to_critical
\* to within one tick.
C21_ConservationAsClaimed ==
  \A i \in DOMAIN last_records :
    ( /\ i < Len(last_records)
      /\ last_records[i + 1].maintenance_event = AUTOMATIC )
    => LET r == last_records[i]
           hours == r.sensors.hours_since_maintenance
       IN \/ /\ TargetHours(r) - TimeStepHours <= hours
             /\ hours <= TargetHours(r) + TimeStepHours
          \/ /\ TargetHours(r) - TimeStepHours <= hours - TimeStepHours
             /\ hours - TimeStepHours <= TargetHours(r) + TimeStepHours

\* C22 - degradation_speed scales every cycle (as claimed): for every motor,
\* in its first cycle and in each cycle an automatic maintenance started,
\* target_hours_to_critical lies in [min_hours_to_critical / s,
\* max_hours_to_critical / s], and the three stage durations sum to it.
C22_SpeedScalesEveryCycleAsClaimed ==
  \A m \in DOMAIN motors :
    /\ (MinHours * 100) \div config.degradation_speed <= motors[m].lifespan
    /\ motors[m].lifespan <= (MaxHours * 100) \div config.degradation_speed
    /\ motors[m].d0 + motors[m].d1 + motors[m].d2 = motors[m].lifespan

\* C23 - run-state machine: initialize leaves the manager PAUSED with clock
\* 0 and empty history, paused, failed and pending sets; resume turns PAUSED
\* into RUNNING and changes nothing from STOPPED, from RUNNING or without a
\* factory; pause turns RUNNING into PAUSED and changes nothing else; stop
\* leads to STOPPED from every state; restart on an initialized manager leads
\* to RUNNING with clock 0 and empty history.
C23_RunStateMachine ==
  [][ /\ Initialize
         => /\ state' = PAUSED /\ current_time' = 0 /\ history' = <<>>
            /\ paused_motors' = EmptyDict /\ failed_motors' = EmptyDict
            /\ pending_decisions' = <<>>
      /\ Resume
         => /\ (state = PAUSED /\ factory) => state' = RUNNING
            /\ (state # PAUSED \/ ~factory) => state' = state
      /\ Pause
         => /\ state = RUNNING => state' = PAUSED
            /\ state # RUNNING => state' = state
      /\ Stop => state' = STOPPED
      /\ (Restart /\ factory)
         => /\ state' = RUNNING /\ current_time' = 0 /\ history' = <<>> ]_vars

\* C23 witness: a generation had filled the history and the clock, and a
\* restart has put the manager back to RUNNING at clock 0 with empty history.
C23_Witness ==
  /\ gen.ended # None
  /\ state = RUNNING
  /\ current_time = 0
  /\ history = <<>>

\* C24 - temperature bounds (as claimed): every non-missing temperature
\* reading, after drift, Gaussian noise and sensor imperfections, is at least
\* ambient_temp (the lower end of the claimed range [ambient_temp,
\* T_critical + 10]).
C24_TemperatureBoundsAsClaimed ==
  thermal.reading.present => thermal.reading.value >= AmbientTemp

\* automatic_maintenance records among the records of the last operation
AutomaticRecords(recs) ==
  Cardinality({ i \in DOMAIN recs : recs[i].maintenance_event = AUTOMATIC })

\* C28 - maintenance event log (as claimed): every maintenance applied to a
\* motor (an automatic maintenance, a maintenance or restore decision)
\* appends exactly one event to the scheduler's log, and the events already
\* logged stay as they are.
C28_EventLogAsClaimed ==
  [][ /\ \A i \in DOMAIN events : i \in DOMAIN events' /\ events'[i] = events[i]
      /\ Len(events') = Len(events) + AutomaticRecords(last_records')
                        + (IF last_decision'.op \in {"handle_motor_maintenance",
                                                     "restore_failed_motor"}
                           THEN 1 ELSE 0) ]_vars

\* C29 - maintenance before the physics update: every record labelled
\* automatic_maintenance reports the freshly reset motor after one step:
\* hours_since_maintenance of exactly one tick, Stage 0, Healthy, and the
\* motor_id of the Critical record that precedes it.
C29_MaintenanceBeforePhysics ==
  \A i \in DOMAIN last_records :
    last_records[i].maintenance_event = AUTOMATIC
    => /\ last_records[i].sensors.hours_since_maintenance = TimeStepHours
       /\ last_records[i].sensors.degradation_stage = 0
       /\ last_records[i].sensors.health_state = HEALTHY
       /\ i > 1
       /\ last_records[i - 1].motor_id = last_records[i].motor_id
       /\ last_records[i - 1].sensors.health_state = CRITICAL

\* C29 witness: motor 1 turned Critical in Stage 2 after more than one tick,
\* and its automatic_maintenance record shows one tick of operation.
C29_Witness ==
  /\ Len(last_records) = 2
  /\ last_records[2].maintenance_event = AUTOMATIC
  /\ last_records[2].motor_id = 1
  /\ last_records[1].sensors.degradation_stage = 2
  /\ last_records[1].sensors.hours_since_maintenance > TimeStepHours
  /\ last_records[2].sensors.hours_since_maintenance = TimeStepHours

\* C30 - should_perform_maintenance: bearing_replacement is returned only
\* for a health below 0.25, lubrication only at ticks t with
\* t mod scheduled_interval < 10, the reactive trigger is evaluated before
\* the scheduled one, and with maintenance disabled the result is None for
\* every input and the event log stays empty.
C30_MaintenanceQuery ==
  last_query.asked =>
    /\ last_query.result = "bearing_replacement"
       => last_query.bearing_health < CriticalHealthThreshold
    /\ last_query.result = "lubrication"
       => last_query.timestep % ScheduledInterval < ScheduledWindow
    /\ ( /\ enable_maintenance
         /\ last_query.bearing_health < CriticalHealthThreshold
         /\ last_query.reactive_draw )
       => last_query.result = "bearing_replacement"
    /\ ~enable_maintenance => (last_query.result = None /\ events = <<>>)

\* C30 witness: maintenance enabled, a health below 0.25 queried inside the
\* lubrication window with both random draws succeeding: the reactive
\* trigger wins.
C30_Witness ==
  /\ last_query.asked
  /\ enable_maintenance
  /\ last_query.bearing_health < CriticalHealthThreshold
  /\ last_query.timestep % ScheduledInterval < ScheduledWindow
  /\ last_query.timestep >= ScheduledInterval
  /\ last_query.reactive_draw /\ last_query.scheduled_draw
  /\ last_query.result = "bearing_replacement"

\* C31 - regime chain: a new factory starts in Normal; no step of the
\* program takes the regime from Idle to Peak or from Peak to Idle (a change
\* between the two passes through a tick in Normal); with regimes disabled
\* the regime is Normal after every step.
C31_RegimeChain ==
  [][ /\ ~(current_regime = IDLE /\ current_regime' = PEAK)
      /\ ~(current_regime = PEAK /\ current_regime' = IDLE)
      /\ inits' # inits => (current_regime' = NORMAL /\ regime_timer' = 0)
      /\ ~enable_regimes' => current_regime' = NORMAL ]_vars

\* C31 witness: steps of a factory with regimes enabled have drawn a new
\* duration and moved the regime to Peak (from Normal, its only predecessor).
C31_Witness ==
  /\ factory
  /\ enable_regimes
  /\ last_error = "TypeError"
  /\ current_regime = PEAK
  /\ regime_duration < RegimeBase

\* C32 - regime dwell: the regime changes only at a tick whose incremented
\* timer reaches regime_duration; at such a tick the timer is reset and a
\* duration in [0.8, 1.2] x base is drawn, otherwise the timer counts the
\* tick and regime and duration stay; so a draw comes RegimeDurationMin to
\* RegimeDurationMax ticks after the previous one; the regime is constant
\* through a generation and all records of a tick carry the same regime.
C32_RegimeDwell ==
  [][ /\ (current_regime' # current_regime /\ inits' = inits)
         => (enable_regimes /\ regime_timer + 1 >= regime_duration)
      /\ (InstantaneousStep /\ factory /\ enable_regimes)
         => IF regime_timer + 1 >= regime_duration
            THEN /\ regime_timer' = 0
                 /\ RegimeDurationMin <= regime_timer + 1
                 /\ regime_timer + 1 <= RegimeDurationMax
            ELSE /\ regime_timer' = regime_timer + 1
                 /\ UNCHANGED <<current_regime, regime_duration>>
      /\ regime_timer' < regime_duration'
      /\ RegimeDurationMin <= regime_duration' /\ regime_duration' <= RegimeDurationMax
      /\ gen.pc # "idle" => current_regime' = current_regime
      /\ \A i, j \in DOMAIN gen'.timestep_records :
           gen'.timestep_records[i].regime = gen'.timestep_records[j].regime ]_vars

\* C32 witness: a generation runs in the middle of a dwell in Peak (one tick
\* counted, the duration not yet reached) and the records of its current tick
\* carry Peak.
C32_Witness ==
  /\ enable_regimes
  /\ current_regime = PEAK
  /\ regime_timer = RegimeDurationMax - 1
  /\ regime_timer > 0
  /\ gen.pc = "motors"
  /\ Len(gen.timestep_records) >= 1
  /\ gen.timestep_records[1].regime = PEAK

\* C34 - imperfection precedence: a reading that enters apply_imperfections
\* missing leaves it missing; otherwise a successful drop draw of an
\* intermittent sensor yields a missing value whatever the flatline and the
\* drift; otherwise a flatlined sensor yields its captured value (the input
\* itself when none was captured yet), without the drift bias; otherwise the
\* accumulated bias is added to the input.
C34_ImperfectionPrecedence ==
  thermal.steps > 0 =>
    LET a == thermal.applied
        st == thermal.imperfection
    IN IF ~a.value.present THEN ~thermal.reading.present
       ELSE IF a.idrop THEN ~thermal.reading.present
       ELSE IF st.is_flatlined
            THEN /\ thermal.reading = (IF a.held.present THEN a.held ELSE a.value)
                 /\ st.flatline_value = thermal.reading
       ELSE thermal.reading = Reading(a.value.value + st.accumulated_bias)

\* C34 witness: a present reading reached a sensor that is intermittent,
\* flatlined and drifting at once, the drop draw succeeded, and the value
\* returned is missing.
C34_Witness ==
  /\ thermal.applied.value.present
  /\ thermal.applied.idrop
  /\ thermal.imperfection.is_intermittent
  /\ thermal.imperfection.is_flatlined
  /\ thermal.imperfection.accumulated_bias # 0
  /\ ~thermal.reading.present

\* C35 - flatline episode (as claimed): while a sensor is flatlined every
\* non-missing value it emits equals the captured value, and an episode that
\* has ended lasted at least 10 consecutive ticks (the lower end of the
\* claimed 10 to 50).
C35_FlatlineEpisodeAsClaimed ==
  /\ (thermal.imperfection.is_flatlined /\ thermal.reading.present)
     => thermal.reading = thermal.imperfection.flatline_value
  /\ thermal.flat_done # 0 => thermal.flat_done >= FlatlineSteps

\* C36 - Stage 0 band: every emitted record whose degradation_stage is
\* Stage 0 reports a motor_health within [base_health - 0.03,
\* base_health + 0.02], whatever the hidden health was before the tick.
C36_Stage0Band ==
  \A i \in DOMAIN last_records :
    last_records[i].sensors.degradation_stage = 0
    => /\ Stage0BaseHealth - 3 <= last_records[i].sensors.motor_health
       /\ last_records[i].sensors.motor_health <= Stage0BaseHealth + 2

\* C36 witness: the first record of a motor's second cycle, in Stage 0, sits
\* on the lower edge of the band: _reset_health_only had left the hidden
\* health at 0.85, below the band, and the step clipped it.
C36_Witness ==
  \E i \in DOMAIN last_records :
    /\ last_records[i].cycle_id = 1
    /\ last_records[i].maintenance_event = None
    /\ last_records[i].sensors.degradation_stage = 0
    /\ last_records[i].sensors.hours_since_maintenance = TimeStepHours
    /\ last_records[i].sensors.motor_health = Stage0BaseHealth - 3

\* C37 - alert on forced low health (as claimed): a live-mode step taken
\* while a motor that is neither paused nor failed has motor_health at or
\* below alert_threshold leaves that motor in paused_motors and in
\* pending_decisions.
C37_AlertPausesAsClaimed ==
  [][ \A m \in Motors :
        ( /\ LiveStep
          /\ factory
          /\ ~enable_maintenance
          /\ motors[m].motor_health <= alert_threshold
          /\ m \notin DOMAIN paused_motors
          /\ m \notin DOMAIN failed_motors )
        => /\ m \in DOMAIN paused_motors'
           /\ \E i \in DOMAIN pending_decisions' : pending_decisions'[i] = m ]_vars

\* C40 - Factory.step never fails (as claimed): a step of an initialized
\* factory, with maintenance enabled or disabled, ends without error,
\* returns exactly one record per motor and advances factory.time by one.
C40_StepNeverFailsAsClaimed ==
  [][ (FactoryStep /\ factory)
      => /\ last_error' = None
         /\ Len(last_records') = NumMotors
         /\ f_time' = f_time + 1 ]_vars

\* ------------------------------------------------------- specifications
BatchNext ==
  \/ InstantaneousInitializeFactory
  \/ GenStart
  \/ GenStartNoFactory
  \/ GenContinue
  \/ GenMotor
  \/ GenEnd
  \/ GenMemoryBreak
  \/ ResetMotor
  \/ InjectFailure

LiveNext ==
  \/ Initialize
  \/ LiveInitializeFactory
  \/ ManagerStep
  \/ LiveStep
  \/ PauseMotor
  \/ HandleMotorFailure
  \/ HandleMotorMaintenance
  \/ RestoreFailedMotor

\* two independent runs of one configuration, compared for determinism
DetNext ==
  \/ DetInitializeFactory
  \/ DetGenStart
  \/ GenContinue
  \/ GenMotor
  \/ GenEnd
  \/ SecondRun

\* one batch run of a fleet whose lifespans span many ticks
LongLifeNext ==
  \/ LongLifeInitializeFactory
  \/ LongLifeGenStart
  \/ GenContinue
  \/ GenMotor
  \/ GenEnd

\* the run-state calls on a manager whose clock and history are filled by a
\* short generation
RunStateNext ==
  \/ DefaultInitialize
  \/ Pause
  \/ Resume
  \/ Stop
  \/ Restart
  \/ DetGenStart
  \/ GenContinue
  \/ GenMotor
  \/ GenEnd

\* the temperature channel of a motor of a newly initialised fleet
ThermalNext ==
  \/ DefaultInitialize
  \/ ThermalStep

\* direct maintenance queries on the scheduler of a live-mode factory
\* (maintenance disabled) and of a batch-mode factory (maintenance enabled)
QueryNext ==
  \/ LiveInitializeFactory
  \/ InstantaneousInitializeFactory
  \/ MaintenanceQuery

\* batch runs under a degradation_speed of 1.0 or 2.0
SpeedNext ==
  \/ SpeedInitializeFactory
  \/ SpeedInitialize
  \/ GenStart
  \/ GenContinue
  \/ GenMotor
  \/ GenEnd

\* the operating regime under repeated steps, with regimes enabled or
\* disabled, and a short generation whose records carry the regime
RegimeNext ==
  \/ RegimeInitializeFactory
  \/ InstantaneousStep
  \/ DetGenStart
  \/ GenContinue
  \/ GenMotor
  \/ GenEnd

\* the temperature channel of a healthy motor through one flatline episode
FlatlineNext ==
  \/ DefaultInitialize
  \/ FlatlineStep

\* steps of a live-mode fleet (maintenance disabled) and of a batch-mode
\* fleet (maintenance enabled), with failures injected between the steps
StepNext ==
  \/ DefaultLiveInitializeFactory
  \/ DetInitializeFactory
  \/ InjectFailure
  \/ LiveStep
  \/ FactoryStep

Next ==
  \/ BatchNext
  \/ StepNext
  \/ FlatlineNext
  \/ RegimeNext
  \/ LiveNext
  \/ DetNext
  \/ LongLifeNext
  \/ SpeedNext
  \/ RunStateNext
  \/ ThermalNext
  \/ QueryNext
  \/ InstantaneousStep
  \/ ManagerGenerate

Spec == Init /\ [][Next]_vars
BatchSpec == Init /\ [][BatchNext]_vars
LiveSpec == Init /\ [][LiveNext]_vars
DetSpec == Init /\ [][DetNext]_vars
LongLifeSpec == Init /\ [][LongLifeNext]_vars
SpeedSpec == Init /\ [][SpeedNext]_vars
RunStateSpec == Init /\ [][RunStateNext]_vars
ThermalSpec == Init /\ [][ThermalNext]_vars
QuerySpec == Init /\ [][QueryNext]_vars
RegimeSpec == Init /\ [][RegimeNext]_vars
FlatlineSpec == Init /\ [][FlatlineNext]_vars
StepSpec == Init /\ [][StepNext]_vars

====
